---- MODULE Spec2Model ----
(***************************************************************************)
(* A model of the test helper package "is" (src/is.go, lines 1-678).       *)
(*                                                                         *)
(* Text is modelled at character level: a Go string is a sequence of       *)
(* one-character strings.  An ANSI colour escape is one element of such a  *)
(* sequence, since no operation of the package looks inside it.            *)
(***************************************************************************)
EXTENDS Integers, Sequences, FiniteSets, TLC

(***************************************************************************)
(* Package strings                                                         *)
(***************************************************************************)

\* s[i..] starts with sub
HasPrefixAt(s, i, sub) ==
    /\ i + Len(sub) - 1 <= Len(s)
    /\ \A k \in 1..Len(sub) : s[i + k - 1] = sub[k]

\* strings.Contains
Contains(s, sub) == \E i \in 1..(Len(s) + 1) : HasPrefixAt(s, i, sub)

\* strings.HasSuffix
HasSuffix(s, suffix) ==
    /\ Len(suffix) <= Len(s)
    /\ HasPrefixAt(s, Len(s) - Len(suffix) + 1, suffix)

\* the tail of s from position i on
From(s, i) == SubSeq(s, i, Len(s))

\* strings.Replace(s, old, new, -1) for a non-empty old: the leftmost
\* occurrence is replaced and the scan resumes after it (occurrences do not
\* overlap, and the text put in is not scanned again).
RECURSIVE ReplaceFrom(_, _, _, _)
ReplaceFrom(s, i, old, new) ==
    IF i > Len(s) THEN <<>>
    ELSE IF HasPrefixAt(s, i, old)
         THEN new \o ReplaceFrom(s, i + Len(old), old, new)
         ELSE <<s[i]>> \o ReplaceFrom(s, i + 1, old, new)

Replace(s, old, new) == ReplaceFrom(s, 1, old, new)

\* strings.Split(s, "\n"): always at least one line
RECURSIVE SplitFrom(_, _, _)
SplitFrom(s, i, cur) ==
    IF i > Len(s) THEN <<cur>>
    ELSE IF s[i] = "\n" THEN <<cur>> \o SplitFrom(s, i + 1, <<>>)
         ELSE SplitFrom(s, i + 1, Append(cur, s[i]))

Split(s) == SplitFrom(s, 1, <<>>)

\* unicode.IsSpace on the characters of the model
IsSpace(c) == c \in {" ", "\t", "\n"}

\* strings.TrimSpace
RECURSIVE TrimLeft(_)
TrimLeft(s) ==
    IF s # <<>> /\ IsSpace(s[1]) THEN TrimLeft(Tail(s)) ELSE s

RECURSIVE TrimRight(_)
TrimRight(s) ==
    IF s # <<>> /\ IsSpace(s[Len(s)]) THEN TrimRight(SubSeq(s, 1, Len(s) - 1)) ELSE s

TrimSpace(s) == TrimLeft(TrimRight(s))

\* strings.LastIndex(s, c) for a one-character c; 0 when absent
LastIndex(s, c) ==
    LET hits == {i \in 1..Len(s) : s[i] = c}
    IN IF hits = {} THEN 0 ELSE CHOOSE i \in hits : \A j \in hits : j <= i

\* concatenation of a sequence of strings
RECURSIVE Concat(_)
Concat(ss) == IF ss = <<>> THEN <<>> ELSE Head(ss) \o Concat(Tail(ss))

(***************************************************************************)
(* Package fmt                                                             *)
(***************************************************************************)

Digit(d) == CASE d = 0 -> "0" [] d = 1 -> "1" [] d = 2 -> "2" [] d = 3 -> "3"
              [] d = 4 -> "4" [] d = 5 -> "5" [] d = 6 -> "6" [] d = 7 -> "7"
              [] d = 8 -> "8" [] d = 9 -> "9"

\* the verb %d on a non-negative integer
RECURSIVE Itoa(_)
Itoa(n) == IF n < 10 THEN <<Digit(n)>> ELSE Append(Itoa(n \div 10), Digit(n % 10))

FlagChars == {"#", "0", "+", "-", " "}
DigitChars == {"0", "1", "2", "3", "4", "5", "6", "7", "8", "9"}

\* the position after the characters of set cs that start at i
RECURSIVE SkipWhile(_, _, _)
SkipWhile(f, i, cs) ==
    IF i <= Len(f) /\ f[i] \in cs THEN SkipWhile(f, i + 1, cs) ELSE i

\* fmt.Sprintf(f) and fmt.Fprintf(w, f) with NO operands, as the package
\* calls them with a computed format string.  After a '%' come flags, a
\* width, a precision and the verb: "%%" prints a percent sign, a verb
\* without an operand prints %!verb(MISSING), a '%' that ends the format
\* prints %!(NOVERB).  (The characters '[' and '*' are outside the
\* alphabets of the model.)
RECURSIVE FormatFrom(_, _)
FormatFrom(f, i) ==
    IF i > Len(f) THEN <<>>
    ELSE IF f[i] # "%" THEN <<f[i]>> \o FormatFrom(f, i + 1)
    ELSE LET afterFlags == SkipWhile(f, i + 1, FlagChars)
             afterWidth == SkipWhile(f, afterFlags, DigitChars)
             afterPrec  == IF afterWidth <= Len(f) /\ f[afterWidth] = "."
                           THEN SkipWhile(f, afterWidth + 1, DigitChars)
                           ELSE afterWidth
         IN IF afterPrec > Len(f) THEN <<"%", "!", "(", "N", "O", "V", "E", "R", "B", ")">>
            ELSE IF f[afterPrec] = "%" THEN <<"%">> \o FormatFrom(f, afterPrec + 1)
            ELSE <<"%", "!", f[afterPrec]>>
                 \o <<"(", "M", "I", "S", "S", "I", "N", "G", ")">>
                 \o FormatFrom(f, afterPrec + 1)

Sprintf0(f) == FormatFrom(f, 1)

(***************************************************************************)
(* Values held in an interface{}: what package reflect sees of them        *)
(***************************************************************************)

\* reflect.Kind, in the order of its constants: Kind(k) is the number of k
KindNames == <<"Invalid", "Bool", "Int", "Int8", "Int16", "Int32", "Int64",
               "Uint", "Uint8", "Uint16", "Uint32", "Uint64", "Uintptr",
               "Float32", "Float64", "Complex64", "Complex128", "Array",
               "Chan", "Func", "Interface", "Map", "Ptr", "Slice", "String",
               "Struct", "UnsafePointer">>

Kind(k) == (CHOOSE i \in 1..Len(KindNames) : KindNames[i] = k) - 1

\* the dynamic type of errors.New(text), as %T prints it
T_error == <<"*", "e", "r", "r", "o", "r", "s", ".", "e", "r", "r", "o", "r", "S", "t", "r", "i", "n", "g">>

\* A value is a record
\*   type   the dynamic type (its name as %T prints it); <<>> for the nil interface
\*   kind   its reflect.Kind
\*   isnil  a chan, func, map, pointer, slice or unsafe.Pointer that is nil
\*   ptr    the data word of reflect.Value: the reference itself for the
\*          pointer-shaped kinds (chan, func, map, pointer), else the
\*          address of the box the value was copied to when it was
\*          converted to interface{}
\*   ref    the storage a slice or map refers to (0: none)
\*   n      the number of an integer, s the text of a string or error,
\*   nan    a float that is NaN
\*   elems  the entries [k, v] of a map in iteration order; the elements of
\*          a slice are entries with an empty key
NoElems == <<>>

NilInterface ==
    [type |-> <<>>, kind |-> "Invalid", isnil |-> TRUE, ptr |-> 0, ref |-> 0,
     n |-> 0, s |-> <<>>, nan |-> FALSE, elems |-> NoElems]

Scalar(type, kind, n, s, nan, box) ==
    [type |-> type, kind |-> kind, isnil |-> FALSE, ptr |-> box, ref |-> 0,
     n |-> n, s |-> s, nan |-> nan, elems |-> NoElems]

IntV(n, box)      == Scalar(<<"i", "n", "t">>, "Int", n, <<>>, FALSE, box)
Int32V(n, box)    == Scalar(<<"i", "n", "t", "3", "2">>, "Int32", n, <<>>, FALSE, box)
Int64V(n, box)    == Scalar(<<"i", "n", "t", "6", "4">>, "Int64", n, <<>>, FALSE, box)
StringV(s, box)   == Scalar(<<"s", "t", "r", "i", "n", "g">>, "String", 0, s, FALSE, box)
FloatV(n, box)    == Scalar(<<"f", "l", "o", "a", "t", "6", "4">>, "Float64", n, <<>>, FALSE, box)
NaNV(box)         == Scalar(<<"f", "l", "o", "a", "t", "6", "4">>, "Float64", 0, <<>>, TRUE, box)

\* a reference of a pointer-shaped kind; ref = 0 is the nil reference.
\* What a pointer points to is held in n.
RefV(type, kind, ref) ==
    [type |-> type, kind |-> kind, isnil |-> (ref = 0), ptr |-> ref, ref |-> ref,
     n |-> 0, s |-> <<>>, nan |-> FALSE, elems |-> NoElems]

\* an element of a slice
Elem(v) == [k |-> <<>>, v |-> v]

ChanV(ref)   == RefV(<<"c", "h", "a", "n", " ", "i", "n", "t">>, "Chan", ref)
FuncV(ref)   == RefV(<<"f", "u", "n", "c", "(", ")">>, "Func", ref)
PtrV(ref)    == RefV(<<"*", "i", "n", "t">>, "Ptr", ref)
UnsafeV(ref) == RefV(<<"u", "n", "s", "a", "f", "e", ".", "P", "o", "i", "n", "t", "e", "r">>, "UnsafePointer", ref)

\* a slice header boxed at `box` over the array `ref` (0: the nil slice)
SliceV(ref, elems, box) ==
    [type |-> <<"[", "]", "i", "n", "t">>, kind |-> "Slice", isnil |-> (ref = 0), ptr |-> box,
     ref |-> ref, n |-> 0, s |-> <<>>, nan |-> FALSE, elems |-> elems]

\* a map (pointer-shaped) with its entries [k, v]
MapV(ref, elems) ==
    [type |-> <<"m", "a", "p", "[", "s", "t", "r", "i", "n", "g", "]", "i", "n", "t">>, kind |-> "Map", isnil |-> (ref = 0),
     ptr |-> ref, ref |-> ref, n |-> 0, s |-> <<>>, nan |-> FALSE, elems |-> elems]

\* a non-nil error made by errors.New(text): a pointer to a struct
ErrorV(text, ref) ==
    [type |-> T_error, kind |-> "Ptr", isnil |-> FALSE, ptr |-> ref,
     ref |-> ref, n |-> 0, s |-> text, nan |-> FALSE, elems |-> NoElems]

(***************************************************************************)
(* isNil, areEqual                                                         *)
(***************************************************************************)

\* value.IsNil()
IsNil(v) == v.isnil

\* isNil with the lower end of the kind range off by one
isNil_skipChan(object) ==
    IF object.kind = "Invalid" THEN TRUE
    ELSE Kind(object.kind) > Kind("Chan") /\ Kind(object.kind) <= Kind("Slice")
         /\ IsNil(object)

\* src/is.go isNil
isNil(object) ==
    IF object.kind = "Invalid" THEN TRUE
    ELSE IF Kind(object.kind) >= Kind("Chan") /\ Kind(object.kind) <= Kind("Slice")
            /\ IsNil(object)
         THEN TRUE
         ELSE FALSE

\* reflect.DeepEqual on two non-nil interface values
RECURSIVE DeepEqual(_, _)
DeepEqual(a, b) ==
    IF a.type # b.type THEN FALSE
    ELSE CASE a.kind = "Func" -> a.isnil /\ b.isnil
           [] a.kind \in {"Slice", "Map"} ->
                /\ a.isnil = b.isnil
                /\ Len(a.elems) = Len(b.elems)
                /\ \/ a.ref = b.ref
                   \/ IF a.kind = "Slice"
                      THEN \A i \in 1..Len(a.elems) : DeepEqual(a.elems[i].v, b.elems[i].v)
                      ELSE \A i \in 1..Len(a.elems) :
                             \E j \in 1..Len(b.elems) :
                                /\ a.elems[i].k = b.elems[j].k
                                /\ DeepEqual(a.elems[i].v, b.elems[j].v)
           [] a.kind = "Ptr" ->
                \/ a.ref = b.ref
                \/ a.n = b.n /\ a.s = b.s
           [] a.kind \in {"Chan", "UnsafePointer"} -> a.ref = b.ref
           [] a.kind = "String" -> a.s = b.s
           [] a.kind = "Float64" -> ~a.nan /\ ~b.nan /\ a.n = b.n
           [] OTHER -> a.n = b.n

\* the fallback comparing the types alone
SameValueStruct_typeOnly(a, b) == a.type = b.type

\* reflect.ValueOf(a) == reflect.ValueOf(b): the Value structs are compared
\* field by field (type, data word, flag; the flag follows from the type)
SameValueStruct(a, b) == a.type = b.type /\ a.ptr = b.ptr

\* src/is.go areEqual
areEqual(a, b) ==
    IF isNil(a) \/ isNil(b)
    THEN IF isNil(a) /\ ~isNil(b) THEN FALSE
         ELSE IF ~isNil(a) /\ isNil(b) THEN FALSE
         ELSE TRUE
    ELSE IF DeepEqual(a, b) THEN TRUE
    ELSE SameValueStruct(a, b)

(***************************************************************************)
(* formatValue                                                             *)
(***************************************************************************)

\* fmt.Sprint(object) on a value that is neither nil, a map nor a slice:
\* an error prints its text, a reference prints as an address
Sprint(v) ==
    CASE v.type = T_error -> v.s
      [] v.kind = "String" -> v.s
      [] v.kind = "Float64" -> IF v.nan THEN <<"N", "a", "N">> ELSE Itoa(v.n)
      [] v.kind \in {"Chan", "Func", "Ptr", "UnsafePointer"} -> <<"0", "x">> \o Itoa(v.ref)
      [] OTHER -> Itoa(v.n)

\* src/is.go formatValue
RECURSIVE formatValue(_)
formatValue(object) ==
    IF isNil(object) THEN <<"n", "i", "l">>
    ELSE IF object.kind = "Map"
    THEN TrimSpace(Concat([i \in 1..Len(object.elems) |->
            object.elems[i].k \o <<":">> \o formatValue(object.elems[i].v) \o <<" ">>]))
    ELSE IF object.kind \in {"Slice", "Array"}
    THEN TrimSpace(Concat([i \in 1..Len(object.elems) |->
            formatValue(object.elems[i].v) \o <<" ">>]))
    ELSE Sprint(object)

\* fmt.Sprintf("%T", v)
TypeName(v) == IF v.kind = "Invalid" THEN <<"<", "n", "i", "l", ">">> ELSE v.type

\* src/is.go getElementFrom (array = <<>> stands for a nil slice as well)
getElementFrom(array, at, orDefault) ==
    IF Len(array) <= at THEN orDefault ELSE array[at + 1]

(***************************************************************************)
(* The source files of the tests, as go/parser sees them                   *)
(***************************************************************************)

\* An argument expression of a call:
\*   text      what format.Node prints for it
\*   isIdent   it is an *ast.Ident
\*   obj       what the identifier resolved to: "NoObj" (Obj is nil: the
\*             name is declared in another file, or not at all), "NoDecl"
\*             (Obj.Decl is nil), or the type of Obj.Decl: "AssignStmt"
\*             (a := declaration), "ValueSpec" (a var declaration),
\*             "Field" (a parameter)
\*   declText  what format.Node prints for the declaring statement
Expr(text) == [text |-> text, isIdent |-> FALSE, obj |-> "NoObj", declText |-> <<>>]
Ident(text, obj, declText) ==
    [text |-> text, isIdent |-> TRUE, obj |-> obj, declText |-> declText]

\* A call expression, in the order ast.Inspect visits the file:
\*   line    the line of its first token
\*   recv    the identifier before the dot of a selector call ("" when the
\*           function is no selector on an identifier)
\*   sel     the selected name
\*   args    its arguments
\*   parent  the call expression it is nested in (0: none)
CallExpr(line, recv, sel, args, parent) ==
    [line |-> line, recv |-> recv, sel |-> sel, args |-> args, parent |-> parent]

\* A comment group: the line it starts on and its text with the markers
CommentGroup(line, raw) == [line |-> line, raw |-> raw]

S_placeholder == <<"$", "A", "R", "G", "S">>

\* the test file of the model
\*    1  is.Fail() // c
\*    2  is.True(x)
\*    3  is.Equal(a, b) // %d
\*    4  is.NoErr(e)          where  e := f()
\*    5  is.NoErr(e)          where  var e error
\*    6  is.NoErr(e)          where  e is a parameter
\*    7  is.NoErr(E)          where  E is declared in another file
\*    8  is.NoErr(f())
\*    9  as.NoErr(e)          a harness not named "is"
\*   10  is.True(s == "$ARGS") // $ARGS
\*   11  is.NoErr(e)          where  e has an object without a declaration
\*   12  is.True(p); is.True(q)
\*   13  is.Equal(1, 2)
TestFileCalls == <<
    CallExpr(1, "is", "Fail", <<>>, 0),
    CallExpr(2, "is", "True", <<Ident(<<"x">>, "AssignStmt", <<"x", " ", ":", "=", " ", "g", "(", ")">>)>>, 0),
    CallExpr(3, "is", "Equal", <<Ident(<<"a">>, "AssignStmt", <<"a", " ", ":", "=", " ", "1">>),
                                 Ident(<<"b">>, "AssignStmt", <<"b", " ", ":", "=", " ", "2">>)>>, 0),
    CallExpr(4, "is", "NoErr", <<Ident(<<"e">>, "AssignStmt", <<"e", " ", ":", "=", " ", "f", "(", ")">>)>>, 0),
    CallExpr(5, "is", "NoErr", <<Ident(<<"e">>, "ValueSpec", <<>>)>>, 0),
    CallExpr(6, "is", "NoErr", <<Ident(<<"e">>, "Field", <<>>)>>, 0),
    CallExpr(7, "is", "NoErr", <<Ident(<<"E">>, "NoObj", <<>>)>>, 0),
    CallExpr(8, "is", "NoErr", <<Expr(<<"f", "(", ")">>)>>, 0),
    CallExpr(8, "", "f", <<>>, 8),
    CallExpr(9, "as", "NoErr", <<Ident(<<"e">>, "AssignStmt", <<"e", " ", ":", "=", " ", "f", "(", ")">>)>>, 0),
    CallExpr(10, "is", "True", <<Expr(<<"s", " ", "=", "=", " ", "\"", "$", "A", "R", "G", "S", "\"">>)>>, 0),
    CallExpr(11, "is", "NoErr", <<Ident(<<"e">>, "NoDecl", <<>>)>>, 0),
    CallExpr(12, "is", "True", <<Expr(<<"p">>)>>, 0),
    CallExpr(12, "is", "True", <<Expr(<<"q">>)>>, 0),
    CallExpr(13, "is", "Equal", <<Expr(<<"1">>), Expr(<<"2">>)>>, 0) >>

TestFileComments == <<
    CommentGroup(1, <<"/", "/", " ", "c">>),
    CommentGroup(3, <<"/", "/", " ", "%", "d">>),
    CommentGroup(10, <<"/", "/", " ", "$", "A", "R", "G", "S">>) >>

\* the paths of the model: the harness's own file, a test file that parses
\* and one that does not
IsGoPath   == <<"p", "/", "i", "s", ".", "g", "o">>
TestPath   == <<"d", "/", "t", ".", "g", "o">>
BrokenPath == <<"d", "/", "u", ".", "g", "o">>

\* parser.ParseFile(fset, path, nil, parser.ParseComments)
ParseFile(path) ==
    IF path = TestPath
    THEN [err |-> FALSE, calls |-> TestFileCalls, comments |-> TestFileComments]
    ELSE [err |-> TRUE, calls |-> <<>>, comments |-> <<>>]

(***************************************************************************)
(* The source index: astCache and the lookups                              *)
(***************************************************************************)

commentCacheEntry == <<"C", "o", "m", "m", "e", "n", "t">>
isCallCacheEntry  == <<"I", "s", "C", "a", "l", "l">>

\* fmt.Sprintf("%s:%d", kind, line)
CacheKey(kind, line) == kind \o <<":">> \o Itoa(line)

\* m[k] = v on a Go map
Put(m, k, v) == [x \in (DOMAIN m) \cup {k} |-> IF x = k THEN v ELSE m[x]]

\* make(map[string]ast.Node)
EmptyMap == <<>>

\* An ast.Node held by the cache: a pointer to the idx-th comment group or
\* call expression of the file parsed from path
NodeRef(nk, path, idx) == [nk |-> nk, path |-> path, idx |-> idx]
NoNode == NodeRef("nil", <<>>, 0)

\* the call expression or comment group a node points to
CallOf(node) == ParseFile(node.path).calls[node.idx]
CommentOf(node) == ParseFile(node.path).comments[node.idx]

\* src/is.go getFileCache: the map of the file, made and stored when absent
getFileCache(cache, path) ==
    IF path \in DOMAIN cache
    THEN [cache |-> cache, file |-> cache[path], new |-> FALSE]
    ELSE [cache |-> Put(cache, path, EmptyMap), file |-> EmptyMap, new |-> TRUE]

\* the loop over f.Comments of getNodeFromCache
RECURSIVE PutComments(_, _, _, _)
PutComments(fileCache, path, comments, i) ==
    IF i > Len(comments) THEN fileCache
    ELSE PutComments(
            Put(fileCache, CacheKey(commentCacheEntry, comments[i].line),
                NodeRef("CommentGroup", path, i)),
            path, comments, i + 1)

\* the callback of ast.Inspect accepts a call expression whose function is
\* a selector on the identifier "is"
IsCallOnIs(call) == call.recv = "is"

\* ast.Inspect reaches a node unless the callback returned false for a
\* node that contains it, which it does for the calls it accepts
RECURSIVE Visited(_, _)
Visited(calls, i) ==
    \/ calls[i].parent = 0
    \/ Visited(calls, calls[i].parent) /\ ~IsCallOnIs(calls[calls[i].parent])

\* the ast.Inspect walk of getNodeFromCache
RECURSIVE PutCalls(_, _, _, _)
PutCalls(fileCache, path, calls, i) ==
    IF i > Len(calls) THEN fileCache
    ELSE PutCalls(
            IF Visited(calls, i) /\ IsCallOnIs(calls[i])
            THEN Put(fileCache, CacheKey(isCallCacheEntry, calls[i].line),
                     NodeRef("CallExpr", path, i))
            ELSE fileCache,
            path, calls, i + 1)

\* the index of a parsed file
BuildIndex(fileCache, path, f) ==
    PutCalls(PutComments(fileCache, path, f.comments, 1), path, f.calls, 1)

\* The result of a lookup: [cache: astCache afterwards, node, err: an error
\* was returned]
Lookup(cache, node, err) == [cache |-> cache, node |-> node, err |-> err]

\* getNodeFromCache, the end: the key is looked up in the index just built
LookupBuilt(cache, path, key, filled) ==
    IF key \in DOMAIN filled
    THEN Lookup(Put(cache, path, filled), filled[key], FALSE)
    ELSE Lookup(Put(cache, path, filled), NoNode, TRUE)

\* getNodeFromCache, after parser.ParseFile returned f
LookupParsed(fc, path, key, f) ==
    IF f.err THEN Lookup(fc.cache, NoNode, TRUE)
    ELSE LookupBuilt(fc.cache, path, key, BuildIndex(fc.file, path, f))

\* getNodeFromCache, after getFileCache returned fc
LookupIn(fc, path, key) ==
    IF key \in DOMAIN fc.file THEN Lookup(fc.cache, fc.file[key], FALSE)
    ELSE IF ~fc.new THEN Lookup(fc.cache, NoNode, TRUE)
    ELSE LookupParsed(fc, path, key, ParseFile(path))

\* src/is.go getNodeFromCache, run without interruption
getNodeFromCache(cache, kind, path, line) ==
    LookupIn(getFileCache(cache, path), path, CacheKey(kind, line))

\* src/is.go nodeToStr on an expression
nodeToStr(expr) == expr.text

\* src/is.go formatCallExprArgs
formatCallExprArgs(callExpr) ==
    IF callExpr.sel = "True" THEN nodeToStr(callExpr.args[1]) ELSE <<>>

\* ast.CommentGroup.Text() of a one-line // comment: the marker and one
\* space after it are removed, trailing space is removed, a newline ends it
CommentText(raw) ==
    LET body  == From(raw, 3)
        body2 == IF body # <<>> /\ body[1] = " " THEN Tail(body) ELSE body
        body3 == TrimRight(body2)
    IN IF body3 = <<>> THEN <<>> ELSE body3 \o <<"\n">>

\* What loadComment and loadArguments return: [cache, text, ok]
Loaded(cache, text, ok) == [cache |-> cache, text |-> text, ok |-> ok]

\* loadComment, after getNodeFromCache returned r
CommentFound(r) ==
    IF r.err \/ r.node.nk # "CommentGroup" THEN Loaded(r.cache, <<>>, FALSE)
    ELSE Loaded(r.cache, TrimSpace(CommentText(CommentOf(r.node).raw)), TRUE)

\* src/is.go loadComment
loadComment(cache, path, line) ==
    CommentFound(getNodeFromCache(cache, commentCacheEntry, path, line))

\* loadArguments, after formatCallExprArgs returned argStr
ArgumentsText(cache, argStr) ==
    IF argStr = <<>> THEN Loaded(cache, <<>>, FALSE) ELSE Loaded(cache, argStr, TRUE)

\* loadArguments, after getNodeFromCache returned r
ArgumentsFound(r) ==
    IF r.err \/ r.node.nk # "CallExpr" THEN Loaded(r.cache, <<>>, FALSE)
    ELSE ArgumentsText(r.cache, formatCallExprArgs(CallOf(r.node)))

\* src/is.go loadArguments
loadArguments(cache, path, line) ==
    ArgumentsFound(getNodeFromCache(cache, isCallCacheEntry, path, line))

(***************************************************************************)
(* The call stack                                                          *)
(***************************************************************************)

\* A stack is the sequence of the frames [path, line] runtime.Caller(i)
\* reports for i = 0, 1, ..., the innermost first.
Frame(path, line) == [path |-> path, line |-> line]

\* src/is.go callerinfo: [path, line, ok]
RECURSIVE CallerFrom(_, _)
CallerFrom(stack, i) ==
    IF i > Len(stack) THEN [path |-> <<>>, line |-> 0, ok |-> FALSE]
    ELSE IF HasSuffix(stack[i].path, <<"i", "s", ".", "g", "o">>) THEN CallerFrom(stack, i + 1)
    ELSE [path |-> stack[i].path, line |-> stack[i].line, ok |-> TRUE]

callerinfo(stack) == CallerFrom(stack, 1)

\* getArgExprs, after getNodeFromCache returned r: [cache, args, err]
ArgExprsFound(r) ==
    IF r.err \/ r.node.nk # "CallExpr"
    THEN [cache |-> r.cache, args |-> <<>>, err |-> TRUE]
    ELSE [cache |-> r.cache, args |-> CallOf(r.node).args, err |-> FALSE]

\* getArgExprs, after callerinfo returned ci
ArgExprsAt(cache, ci) ==
    IF ~ci.ok THEN [cache |-> cache, args |-> <<>>, err |-> TRUE]
    ELSE ArgExprsFound(getNodeFromCache(cache, isCallCacheEntry, ci.path, ci.line))

\* src/is.go getArgExprs
getArgExprs(cache, stack) == ArgExprsAt(cache, callerinfo(stack))

\* getArgNames, after getArgExprs returned r: [cache, names, err]
ArgNamesOf(r) ==
    IF r.err THEN [cache |-> r.cache, names |-> <<>>, err |-> TRUE]
    ELSE [cache |-> r.cache,
          names |-> [i \in 1..Len(r.args) |-> nodeToStr(r.args[i])],
          err |-> FALSE]

\* src/is.go getArgNames
getArgNames(cache, stack) == ArgNamesOf(getArgExprs(cache, stack))

(***************************************************************************)
(* decorate                                                                *)
(***************************************************************************)

colorNormal  == <<"ESC[39m">>
colorComment == <<"ESC[32m">>
colorFile    == <<"ESC[90m">>
colorType    == <<"ESC[90m">>

\* filepath.Base on a path that does not end in a separator
Base(path) ==
    IF path = <<>> THEN <<".">> ELSE From(path, LastIndex(path, "/") + 1)

\* if colorful { buf.WriteString(color) }
Color(colorful, color) == IF colorful THEN color ELSE <<>>

\* the file name decorate prints: the base of the path, truncated at its
\* last separator, or ??? when no caller was found
Truncated(base) ==
    IF LastIndex(base, "/") > 0 THEN From(base, LastIndex(base, "/") + 1)
    ELSE IF LastIndex(base, "\\") > 0 THEN From(base, LastIndex(base, "\\") + 1)
    ELSE base

FileName(ci) == IF ci.ok THEN Truncated(Base(ci.path)) ELSE <<"?", "?", "?">>

LineNumber(ci) == IF ci.ok THEN ci.line ELSE 1

\* the lines of the message: a last empty line is dropped
DropLastEmpty(split) ==
    IF Len(split) > 1 /\ split[Len(split)] = <<>>
    THEN SubSeq(split, 1, Len(split) - 1) ELSE split

MessageLines(s) == DropLastEmpty(Split(s))

\* the expansion that leaves the line as it is when no argument text was
\* found
ExpandArgs_keepWhenEmpty(line, args) ==
    IF args = <<>> THEN line ELSE Replace(line, S_placeholder, args)

\* the expansion of the placeholder in one line of the message
ExpandArgs(line, args) == Replace(line, S_placeholder, args)

\* "\t", the file and the line
Prefix(colorful, file, lineNumber) ==
    <<"\t">> \o Color(colorful, colorFile)
    \o file \o <<":">> \o Itoa(lineNumber) \o <<":", " ">>
    \o Color(colorful, colorNormal)

\* the lines of the message, the placeholder expanded, the second and
\* later lines indented
Body(lines, args) ==
    Concat([i \in 1..Len(lines) |->
        (IF i > 1 THEN <<"\n", "\t", "\t">> ELSE <<>>)
        \o (IF Contains(lines[i], S_placeholder)
            THEN ExpandArgs(lines[i], args) ELSE lines[i])])

\* the comment of the line
Suffix(colorful, lc) ==
    IF lc.ok
    THEN Color(colorful, colorComment) \o <<" ", "/", "/", " ">>
         \o lc.text \o Color(colorful, colorNormal)
    ELSE <<>>

\* decorate, after loadComment returned lc: [cache, text, args, comment,
\* hasComment], where args and comment are what loadArguments and
\* loadComment found
Composed(colorful, file, lineNumber, lines, args, lc) ==
    [cache |-> lc.cache,
     text |-> Prefix(colorful, file, lineNumber) \o Body(lines, args)
              \o Suffix(colorful, lc) \o <<"\n">>,
     args |-> args, comment |-> lc.text, hasComment |-> lc.ok]

\* decorate, after loadArguments returned la
DecorateWithArgs(colorful, path, file, lineNumber, lines, la) ==
    Composed(colorful, file, lineNumber, lines, la.text,
             loadComment(la.cache, path, lineNumber))

\* decorate, after the message was split: the arguments are loaded when a
\* line holds the placeholder
DecorateLines(cache, colorful, path, file, lineNumber, lines) ==
    DecorateWithArgs(colorful, path, file, lineNumber, lines,
        IF \E i \in 1..Len(lines) : Contains(lines[i], S_placeholder)
        THEN loadArguments(cache, path, lineNumber)
        ELSE Loaded(cache, <<>>, FALSE))

\* decorate, after callerinfo returned ci
DecorateAt(cache, colorful, ci, s) ==
    DecorateLines(cache, colorful, ci.path, FileName(ci), LineNumber(ci),
                  MessageLines(s))

\* src/is.go decorate
decorate(cache, colorful, stack, s) ==
    DecorateAt(cache, colorful, callerinfo(stack), s)

(***************************************************************************)
(* The messages of the assertions                                          *)
(***************************************************************************)

\* fmt.Sprintf("%s(%s)", x, y), and its coloured form
Labelled(colorful, name, value) ==
    name \o Color(colorful, colorType) \o <<"(">> \o value \o <<")">>
    \o Color(colorful, colorNormal)

\* the value of an operand of Equal with its type put before it whenever
\* the types of the operands differ
TypedValue_nilToo(a, b, v) ==
    IF TypeName(a) # TypeName(b)
    THEN TypeName(v) \o <<"(">> \o formatValue(v) \o <<")">>
    ELSE formatValue(v)

\* the value of an operand of Equal: its type is put before it when both
\* operands are non-nil and of different types
TypedValue(a, b, v) ==
    IF ~(isNil(a) \/ isNil(b)) /\ a.type # b.type
    THEN TypeName(v) \o <<"(">> \o formatValue(v) \o <<")">>
    ELSE formatValue(v)

\* the operand labelled with the text of the argument in every case
Shown_always(colorful, name, value) == Labelled(colorful, name, value)

\* the operand as the message shows it: the value, labelled with the text
\* of the argument unless the two are the same
Shown(colorful, name, value) ==
    IF value # name THEN Labelled(colorful, name, value) ELSE value

\* Equal, after getArgNames returned an: [cache, msg]
EqualText(colorful, a, b, an) ==
    [cache |-> an.cache,
     msg |-> Shown(colorful, getElementFrom(an.names, 0, <<>>), TypedValue(a, b, a))
             \o <<" ", "!", "=", " ">>
             \o Shown(colorful, getElementFrom(an.names, 1, <<>>), TypedValue(a, b, b))]

\* src/is.go Equal, from the failed comparison to the call of logf
EqualMessage(cache, colorful, a, b, stack) ==
    EqualText(colorful, a, b, getArgNames(cache, stack))

\* src/is.go findAssignStmtFromIdent: "nil", "stmt" (the assignment was
\* found) or "panic" (the type assertion on Obj.Decl failed)
findAssignStmtFromIdent(ident) ==
    IF ident.obj = "NoObj" THEN "nil"
    ELSE IF ident.obj = "NoDecl" THEN "nil"
    ELSE IF ident.obj = "AssignStmt" THEN "stmt"
    ELSE "panic"

\* NoErr panics: errVar.Obj.Decl dereferences a nil Obj, or the type
\* assertion of findAssignStmtFromIdent fails
NoErrPanics(argExpr) ==
    /\ argExpr.isIdent
    /\ \/ argExpr.obj = "NoObj"
       \/ argExpr.obj # "NoDecl" /\ findAssignStmtFromIdent(argExpr) = "panic"

\* the source NoErr shows for the error: the statement that declares the
\* identifier when it is found, else the text of the argument
ErrSrc(argExpr, names) ==
    IF argExpr.isIdent /\ argExpr.obj # "NoDecl"
       /\ findAssignStmtFromIdent(argExpr) = "stmt"
    THEN argExpr.declText
    ELSE getElementFrom(names, 0, <<>>)

\* What NoErr passes to log: [cache, msg, panic]
NoErrResult(cache, msg, panic) == [cache |-> cache, msg |-> msg, panic |-> panic]

\* NoErr, after getArgNames returned an
NoErrWithNames(colorful, err, argExpr, an) ==
    IF NoErrPanics(argExpr) THEN NoErrResult(an.cache, <<>>, TRUE)
    ELSE NoErrResult(an.cache,
            Sprintf0(<<"e", "r", "r", "o", "r", ":", " ">> \o formatValue(err)
                     \o Labelled(colorful, <<>>, ErrSrc(argExpr, an.names))),
            FALSE)

\* NoErr, after getArgExprs returned ae
NoErrWithArgs(colorful, err, stack, ae) ==
    IF ae.err \/ Len(ae.args) <= 0 THEN NoErrResult(ae.cache, Sprint(err), FALSE)
    ELSE NoErrWithNames(colorful, err, ae.args[1], getArgNames(ae.cache, stack))

\* src/is.go NoErr on a non-nil error, up to the call of logf
NoErrMessage(cache, colorful, err, stack) ==
    NoErrWithArgs(colorful, err, stack, getArgExprs(cache, stack))

(***************************************************************************)
(* The harness                                                             *)
(***************************************************************************)

\* at most MaxCalls assertions are called on the harness
MaxCalls == 2

\* the error texts are the strings of 1..MaxTextLen characters of
\* ErrAlphabet, and two texts built around the placeholder
MaxTextLen == 2

ErrAlphabet == {"%", "d"}

RECURSIVE Texts(_)
Texts(n) ==
    IF n = 0 THEN {<<>>}
    ELSE Texts(n - 1) \cup {Append(t, c) : t \in Texts(n - 1), c \in ErrAlphabet}

ErrTexts ==
    (Texts(MaxTextLen) \ {<<>>})
    \cup {S_placeholder, <<"$", "A", "R", "$", "A", "R", "G", "S", "G", "S">>}

\* the errors passed to NoErr: the nil error and errors.New(text)
Errors == {NilInterface} \cup {ErrorV(t, 70) : t \in ErrTexts}

\* the operands passed to Equal
EqualOperands ==
    {NilInterface, PtrV(0), IntV(1, 101), IntV(2, 102), Int64V(1, 103),
     StringV(S_placeholder, 701)}

RunnerPath == <<"r", "/", "t", "e", "s", "t", "i", "n", "g", ".", "g", "o">>

\* the frames of the harness's own file, innermost first: callerinfo,
\* decorate, log and the assertion
HarnessFrames ==
    <<Frame(IsGoPath, 427), Frame(IsGoPath, 583), Frame(IsGoPath, 114),
      Frame(IsGoPath, 133)>>

\* The stacks an assertion `op` can be called with: from a statement of the
\* test file that calls op on a harness, from a file that does not parse,
\* or with no frame outside the harness's own file
Stacks(op) ==
    {HarnessFrames \o <<Frame(TestPath, TestFileCalls[i].line), Frame(RunnerPath, 1)>> :
        i \in {j \in 1..Len(TestFileCalls) :
                 TestFileCalls[j].sel = op /\ TestFileCalls[j].recv \in {"is", "as"}}}
    \cup {HarnessFrames \o <<Frame(BrokenPath, 2), Frame(RunnerPath, 1)>>}
    \cup {HarnessFrames}

VARIABLES eqA, eqB, eqRes, eqPc

eqvars == <<eqA, eqB, eqRes, eqPc>>

VARIABLES
    astCacheRefs,  \* astCache as the goroutines share it: path -> map object
    maps,          \* the map objects made by getFileCache: id -> (key -> node)
    goroutines,    \* the goroutines in getNodeFromCache, each with its locals
    parses,        \* how often parser.ParseFile returned a file
    crashed        \* the runtime stopped the program with a fatal error

concvars == <<astCacheRefs, maps, goroutines, parses, crashed>>

VARIABLES
    lookups        \* the lookups that returned in a sequential run, in order

seqvars == <<lookups>>

VARIABLES
    callStack,     \* the stack callerinfo walks
    callerRes,     \* what callerinfo returned
    callerPc       \* "input" before the call of callerinfo, "done" after it

callvars == <<callStack, callerRes, callerPc>>

VARIABLES
    harnesses,     \* the harness of the test and that of its subtest
    tcallsOf       \* how often each method of each T was called

subvars == <<harnesses, tcallsOf>>

auxvars == <<seqvars, callvars, subvars>>

VARIABLES
    is,        \* the harness: [fail: the method of T it calls, colorful]
    tcalls,    \* how often each method of T was called
    out,       \* the writes the output sink received, in order
    astCache,  \* path -> (key -> node)
    pc,        \* "idle", "write", "fail", "aborted" or "panicked"
    cur,       \* the assertion in progress
    done       \* the assertions that returned, in order

vars == <<is, tcalls, out, astCache, pc, cur, done, eqA, eqB, eqRes, eqPc,
          astCacheRefs, maps, goroutines, parses, crashed,
          lookups, callStack, callerRes, callerPc, harnesses, tcallsOf>>
mainvars == <<is, tcalls, out, astCache, pc, cur, done>>

\* src/is.go New
New == [fail |-> "FailNow", colorful |-> TRUE]

\* src/is.go NewRelaxed
NewRelaxed == [fail |-> "Fail", colorful |-> TRUE]

\* An assertion: op, its operands (expr for True, a and b for Equal, a for
\* NoErr), the stack it is called with, and what became of it:
\*   raw      the message passed to log
\*   args, comment, hasComment   what decorate found for the call site
\*   s        the decorated string
\*   wrote    the writes to the sink during the call
\*   cb       the calls of the failure callback during the call
\*   status   "passed", "failed" or "panicked"
Assertion(op, expr, a, b, stack) ==
    [op |-> op, expr |-> expr, a |-> a, b |-> b, stack |-> stack,
     raw |-> <<>>, args |-> <<>>, comment |-> <<>>, hasComment |-> FALSE,
     s |-> <<>>, wrote |-> 0, cb |-> 0, status |-> "passed"]

NoCall == Assertion("none", TRUE, NilInterface, NilInterface, <<>>)

\* The harness is made by New or NewRelaxed; the tests set colorful.
MainInit ==
    /\ \E h \in {New, NewRelaxed}, c \in BOOLEAN : is = [h EXCEPT !.colorful = c]
    /\ tcalls = [Fail |-> 0, FailNow |-> 0]
    /\ out = <<>>
    /\ astCache = EmptyMap
    /\ pc = "idle"
    /\ cur = NoCall
    /\ done = <<>>

EqIdle == eqA = NilInterface /\ eqB = NilInterface /\ eqRes = FALSE /\ eqPc = "off"

ConcIdle ==
    /\ astCacheRefs = EmptyMap /\ maps = <<>> /\ goroutines = <<>>
    /\ parses = 0 /\ crashed = FALSE

\* no assertion is called
MainIdle ==
    /\ is = New /\ tcalls = [Fail |-> 0, FailNow |-> 0] /\ out = <<>>
    /\ astCache = EmptyMap /\ pc = "off" /\ cur = NoCall /\ done = <<>>

SeqIdle == lookups = <<>>

CallIdle ==
    /\ callStack = <<>> /\ callerPc = "off"
    /\ callerRes = [path |-> <<>>, line |-> 0, ok |-> FALSE]

SubIdle == harnesses = <<>> /\ tcallsOf = <<>>

AuxIdle == SeqIdle /\ CallIdle /\ SubIdle

Init == MainInit /\ EqIdle /\ ConcIdle /\ AuxIdle

CanCall == pc = "idle" /\ Len(done) < MaxCalls

\* the assertion passes: it returns at once
Pass(call) ==
    /\ done' = Append(done, call)
    /\ UNCHANGED <<is, tcalls, out, astCache, pc, cur>>

\* log with the callback invoked right after decorate, the write left out
LogDecorate_skipWrite(call, cache, msg) ==
    \E d \in {decorate(cache, is.colorful, call.stack, msg)} :
       /\ astCache' = d.cache
       /\ cur' = [call EXCEPT !.raw = msg, !.args = d.args, !.comment = d.comment,
                               !.hasComment = d.hasComment, !.s = d.text,
                               !.status = "failed"]
       /\ pc' = "fail"
       /\ UNCHANGED <<is, tcalls, out, done>>

\* src/is.go log, first statement: s := is.decorate(fmt.Sprint(args...))
LogDecorate(call, cache, msg) ==
    \E d \in {decorate(cache, is.colorful, call.stack, msg)} :
       /\ astCache' = d.cache
       /\ cur' = [call EXCEPT !.raw = msg, !.args = d.args, !.comment = d.comment,
                               !.hasComment = d.hasComment, !.s = d.text,
                               !.status = "failed"]
       /\ pc' = "write"
       /\ UNCHANGED <<is, tcalls, out, done>>

\* src/is.go Fail
Fail ==
    /\ CanCall
    /\ \E stack \in Stacks("Fail") :
          LogDecorate(Assertion("Fail", TRUE, NilInterface, NilInterface, stack),
                      astCache, <<"f", "a", "i", "l", "e", "d">>)
    /\ UNCHANGED <<eqvars, concvars, auxvars>>

\* src/is.go True
True ==
    /\ CanCall
    /\ \E expression \in BOOLEAN, stack \in Stacks("True") :
          IF ~expression
          THEN LogDecorate(Assertion("True", expression, NilInterface, NilInterface, stack),
                           astCache, <<"n", "o", "t", " ", "t", "r", "u", "e", ":", " ", "$", "A", "R", "G", "S">>)
          ELSE Pass(Assertion("True", expression, NilInterface, NilInterface, stack))
    /\ UNCHANGED <<eqvars, concvars, auxvars>>

\* src/is.go Equal
Equal ==
    /\ CanCall
    /\ \E a \in EqualOperands, b \in EqualOperands, stack \in Stacks("Equal") :
          IF areEqual(a, b) THEN Pass(Assertion("Equal", TRUE, a, b, stack))
          ELSE \E m \in {EqualMessage(astCache, is.colorful, a, b, stack)} :
                  LogDecorate(Assertion("Equal", TRUE, a, b, stack), m.cache, m.msg)
    /\ UNCHANGED <<eqvars, concvars, auxvars>>

\* src/is.go NoErr
NoErr ==
    /\ CanCall
    /\ \E err \in Errors, stack \in Stacks("NoErr") :
          IF err = NilInterface
          THEN Pass(Assertion("NoErr", TRUE, err, NilInterface, stack))
          ELSE \E m \in {NoErrMessage(astCache, is.colorful, err, stack)} :
                  IF m.panic
                  THEN /\ astCache' = m.cache
                       /\ cur' = [Assertion("NoErr", TRUE, err, NilInterface, stack)
                                    EXCEPT !.status = "panicked"]
                       /\ pc' = "panicked"
                       /\ UNCHANGED <<is, tcalls, out, done>>
                  ELSE LogDecorate(Assertion("NoErr", TRUE, err, NilInterface, stack),
                                   m.cache, m.msg)
    /\ UNCHANGED <<eqvars, concvars, auxvars>>

\* src/is.go log, second statement: fmt.Fprintf(is.out, s)
Write ==
    /\ pc = "write"
    /\ out' = Append(out, Sprintf0(cur.s))
    /\ cur' = [cur EXCEPT !.wrote = @ + 1]
    /\ pc' = "fail"
    /\ UNCHANGED <<is, tcalls, astCache, done>>
    /\ UNCHANGED <<eqvars, concvars, auxvars>>

\* log calling T.FailNow whatever the harness was made with
InvokeFail_alwaysFailNow ==
    /\ pc = "fail"
    /\ tcalls' = [tcalls EXCEPT !["FailNow"] = @ + 1]
    /\ pc' = "idle"
    /\ done' = Append(done, [cur EXCEPT !.cb = @ + 1])
    /\ cur' = NoCall
    /\ UNCHANGED <<is, out, astCache>>
    /\ UNCHANGED <<eqvars, concvars, auxvars>>

\* src/is.go log, third statement: is.fail().  T.Fail returns.  T.FailNow
\* of the tests' mockT returns too; that of testing.T ends the goroutine
\* of the test.
InvokeFail ==
    /\ pc = "fail"
    /\ tcalls' = [tcalls EXCEPT ![is.fail] = @ + 1]
    /\ \/ /\ pc' = "idle"
          /\ done' = Append(done, [cur EXCEPT !.cb = @ + 1])
          /\ cur' = NoCall
       \/ /\ is.fail = "FailNow"
          /\ pc' = "aborted"
          /\ cur' = [cur EXCEPT !.cb = @ + 1]
          /\ done' = done
    /\ UNCHANGED <<is, out, astCache>>
    /\ UNCHANGED <<eqvars, concvars, auxvars>>

Next == Fail \/ True \/ Equal \/ NoErr \/ Write \/ InvokeFail

Spec == Init /\ [][Next]_vars

(***************************************************************************)
(* The equality engine on its own: areEqual applied to a pair of operands  *)
(***************************************************************************)

\* the integers of the operands are 1..MaxInt
MaxInt == 2

\* Each scalar is boxed twice (the same value converted to interface{} at
\* two places), each reference kind has its nil and two made references,
\* and two slices hold the same elements in different arrays.
EqValues ==
    {NilInterface}
    \cup {IntV(n, 100 + n) : n \in 1..MaxInt}
    \cup {IntV(n, 200 + n) : n \in 1..MaxInt}
    \cup {Int32V(n, 300 + n) : n \in 1..MaxInt}
    \cup {Int64V(n, 400 + n) : n \in 1..MaxInt}
    \cup {FloatV(n, 500 + n) : n \in 1..MaxInt}
    \cup {NaNV(601), NaNV(602)}
    \cup {StringV(<<"a">>, 701), StringV(<<"a">>, 702), StringV(<<"b">>, 703)}
    \cup {ChanV(r) : r \in {0, 11, 12}}
    \cup {FuncV(r) : r \in {0, 21, 22}}
    \cup {PtrV(r) : r \in {0, 31, 32}}
    \cup {UnsafeV(r) : r \in {0, 41}}
    \cup {SliceV(0, <<>>, 801), SliceV(51, <<>>, 802),
          SliceV(52, <<Elem(IntV(1, 52))>>, 803),
          SliceV(53, <<Elem(IntV(1, 53))>>, 804),
          SliceV(54, <<Elem(IntV(1, 54)), Elem(IntV(2, 55))>>, 805)}
    \cup {MapV(0, <<>>), MapV(61, <<>>),
          MapV(62, <<[k |-> <<"v">>, v |-> IntV(1, 901)]>>),
          MapV(63, <<[k |-> <<"v">>, v |-> IntV(1, 902)]>>),
          MapV(64, <<[k |-> <<"v">>, v |-> IntV(2, 903)]>>)}

EqInit ==
    /\ MainIdle /\ ConcIdle /\ AuxIdle
    /\ eqA \in EqValues
    /\ eqB \in EqValues
    /\ eqRes = FALSE
    /\ eqPc = "input"

\* areEqual(eqA, eqB) is called
ApplyAreEqual ==
    /\ eqPc = "input"
    /\ eqRes' = areEqual(eqA, eqB)
    /\ eqPc' = "done"
    /\ UNCHANGED <<eqA, eqB>>
    /\ UNCHANGED <<mainvars, concvars, auxvars>>

EqNext == ApplyAreEqual

SpecEq == EqInit /\ [][EqNext]_vars

(***************************************************************************)
(* getNodeFromCache called by several goroutines.  astCache is a package   *)
(* variable and no lock guards it (src/is.go has no mutex), so the         *)
(* statements of the goroutines interleave.  Two goroutines about to       *)
(* access the same map, one of them writing, race: the runtime may stop    *)
(* the program ("fatal error: concurrent map writes"), or the accesses     *)
(* take effect one after the other.                                        *)
(***************************************************************************)

\* the goroutines are 1..NumGoroutines
NumGoroutines == 2

Goroutines == 1..NumGoroutines

\* the lines the goroutines look up: one with a call and a comment, one
\* with a call and no comment
ConcLines == {1, 2}

\* A goroutine in getNodeFromCache(kind, path, line), with the locals key,
\* fileCache, newCacheEntry, the index i of its loops, what it returned,
\* and whether it called parser.ParseFile
Goroutine(kind, path, line) ==
    [pc |-> "getFileCache", path |-> path, key |-> CacheKey(kind, line),
     fileCache |-> 0, newCacheEntry |-> FALSE, i |-> 0,
     entry |-> NoNode, err |-> FALSE, parsed |-> FALSE]

\* All goroutines look up the same path, which no one looked up before.
ConcInit ==
    /\ MainIdle /\ EqIdle /\ AuxIdle
    /\ astCacheRefs = EmptyMap
    /\ maps = <<>>
    /\ parses = 0
    /\ crashed = FALSE
    /\ \E path \in {TestPath, BrokenPath} :
          goroutines \in [Goroutines ->
              {Goroutine(kind, path, line) :
                  kind \in {commentCacheEntry, isCallCacheEntry},
                  line \in ConcLines}]

Running(t) == ~crashed /\ t \in DOMAIN goroutines

\* the goroutine returns from getNodeFromCache
Return(t, entry, err) ==
    goroutines' = [goroutines EXCEPT ![t].pc = "returned", ![t].entry = entry,
                                     ![t].err = err]

\* getFileCache: file, ok := astCache[path]; if ok { return file, false }
GetFileCacheRead(t) ==
    /\ Running(t) /\ goroutines[t].pc = "getFileCache"
    /\ IF goroutines[t].path \in DOMAIN astCacheRefs
       THEN goroutines' = [goroutines EXCEPT
                ![t].pc = "lookup",
                ![t].fileCache = astCacheRefs[goroutines[t].path],
                ![t].newCacheEntry = FALSE]
       ELSE goroutines' = [goroutines EXCEPT ![t].pc = "make"]
    /\ UNCHANGED <<astCacheRefs, maps, parses, crashed>>
    /\ UNCHANGED <<mainvars, eqvars, auxvars>>

\* getFileCache making the map without storing it in astCache
GetFileCacheStore_noStore(t) ==
    /\ Running(t) /\ goroutines[t].pc = "make"
    /\ maps' = Append(maps, EmptyMap)
    /\ goroutines' = [goroutines EXCEPT
            ![t].pc = "lookup",
            ![t].fileCache = Len(maps) + 1,
            ![t].newCacheEntry = TRUE]
    /\ UNCHANGED <<astCacheRefs, parses, crashed>>
    /\ UNCHANGED <<mainvars, eqvars, auxvars>>

\* getFileCache: result := make(map[string]ast.Node); astCache[path] = result
GetFileCacheStore(t) ==
    /\ Running(t) /\ goroutines[t].pc = "make"
    /\ maps' = Append(maps, EmptyMap)
    /\ astCacheRefs' = Put(astCacheRefs, goroutines[t].path, Len(maps) + 1)
    /\ goroutines' = [goroutines EXCEPT
            ![t].pc = "lookup",
            ![t].fileCache = Len(maps) + 1,
            ![t].newCacheEntry = TRUE]
    /\ UNCHANGED <<parses, crashed>>
    /\ UNCHANGED <<mainvars, eqvars, auxvars>>

\* getNodeFromCache: entry, ok := fileCache[key], and the two returns that
\* follow it
FirstLookup(t) ==
    /\ Running(t) /\ goroutines[t].pc = "lookup"
    /\ IF goroutines[t].key \in DOMAIN maps[goroutines[t].fileCache]
       THEN Return(t, maps[goroutines[t].fileCache][goroutines[t].key], FALSE)
       ELSE IF ~goroutines[t].newCacheEntry
       THEN Return(t, NoNode, TRUE)
       ELSE goroutines' = [goroutines EXCEPT ![t].pc = "parse"]
    /\ UNCHANGED <<astCacheRefs, maps, parses, crashed>>
    /\ UNCHANGED <<mainvars, eqvars, auxvars>>

\* getNodeFromCache: f, err := parser.ParseFile(...)
Parse(t) ==
    /\ Running(t) /\ goroutines[t].pc = "parse"
    /\ IF ParseFile(goroutines[t].path).err
       THEN /\ goroutines' = [goroutines EXCEPT ![t].pc = "returned",
                                  ![t].entry = NoNode, ![t].err = TRUE,
                                  ![t].parsed = TRUE]
            /\ parses' = parses
       ELSE /\ goroutines' = [goroutines EXCEPT ![t].pc = "comments", ![t].i = 1,
                                                ![t].parsed = TRUE]
            /\ parses' = parses + 1
    /\ UNCHANGED <<astCacheRefs, maps, crashed>>
    /\ UNCHANGED <<mainvars, eqvars, auxvars>>

\* getNodeFromCache: one iteration of the loop over f.Comments
PutComment(t) ==
    /\ Running(t) /\ goroutines[t].pc = "comments"
    /\ IF goroutines[t].i > Len(ParseFile(goroutines[t].path).comments)
       THEN /\ goroutines' = [goroutines EXCEPT ![t].pc = "calls", ![t].i = 1]
            /\ maps' = maps
       ELSE /\ maps' = [maps EXCEPT ![goroutines[t].fileCache] =
                    Put(@, CacheKey(commentCacheEntry,
                               ParseFile(goroutines[t].path).comments[goroutines[t].i].line),
                        NodeRef("CommentGroup", goroutines[t].path, goroutines[t].i))]
            /\ goroutines' = [goroutines EXCEPT ![t].i = @ + 1]
    /\ UNCHANGED <<astCacheRefs, parses, crashed>>
    /\ UNCHANGED <<mainvars, eqvars, auxvars>>

\* the i-th call expression of the goroutine's file is one that the
\* callback of ast.Inspect stores
StoresCall(t) ==
    /\ Visited(ParseFile(goroutines[t].path).calls, goroutines[t].i)
    /\ IsCallOnIs(ParseFile(goroutines[t].path).calls[goroutines[t].i])

\* getNodeFromCache: the callback of ast.Inspect on one call expression
InspectCall(t) ==
    /\ Running(t) /\ goroutines[t].pc = "calls"
    /\ IF goroutines[t].i > Len(ParseFile(goroutines[t].path).calls)
       THEN /\ goroutines' = [goroutines EXCEPT ![t].pc = "lookup2"]
            /\ maps' = maps
       ELSE /\ maps' = IF StoresCall(t)
                       THEN [maps EXCEPT ![goroutines[t].fileCache] =
                               Put(@, CacheKey(isCallCacheEntry,
                                          ParseFile(goroutines[t].path).calls[goroutines[t].i].line),
                                   NodeRef("CallExpr", goroutines[t].path, goroutines[t].i))]
                       ELSE maps
            /\ goroutines' = [goroutines EXCEPT ![t].i = @ + 1]
    /\ UNCHANGED <<astCacheRefs, parses, crashed>>
    /\ UNCHANGED <<mainvars, eqvars, auxvars>>

\* getNodeFromCache returning the error after the build whatever the map
\* holds
SecondLookup_miss(t) ==
    /\ Running(t) /\ goroutines[t].pc = "lookup2"
    /\ Return(t, NoNode, TRUE)
    /\ UNCHANGED <<astCacheRefs, maps, parses, crashed>>
    /\ UNCHANGED <<mainvars, eqvars, auxvars>>

\* getNodeFromCache: entry, ok = fileCache[key] after the build
SecondLookup(t) ==
    /\ Running(t) /\ goroutines[t].pc = "lookup2"
    /\ IF goroutines[t].key \in DOMAIN maps[goroutines[t].fileCache]
       THEN Return(t, maps[goroutines[t].fileCache][goroutines[t].key], FALSE)
       ELSE Return(t, NoNode, TRUE)
    /\ UNCHANGED <<astCacheRefs, maps, parses, crashed>>
    /\ UNCHANGED <<mainvars, eqvars, auxvars>>

\* The map the next statement of the goroutine accesses (0 for astCache, the
\* id of a map object, -1 when it accesses no map), and whether it writes to
\* it
Accessed(t) ==
    CASE goroutines[t].pc \in {"getFileCache", "make"} -> 0
      [] goroutines[t].pc \in {"lookup", "lookup2"} -> goroutines[t].fileCache
      [] goroutines[t].pc = "comments"
            /\ goroutines[t].i <= Len(ParseFile(goroutines[t].path).comments)
         -> goroutines[t].fileCache
      [] goroutines[t].pc = "calls"
            /\ goroutines[t].i <= Len(ParseFile(goroutines[t].path).calls)
            /\ StoresCall(t)
         -> goroutines[t].fileCache
      [] OTHER -> -1

Writes(t) == goroutines[t].pc \in {"make", "comments", "calls"}

\* two goroutines are about to access the same map, one of them writing
Race(t, u) ==
    /\ t # u
    /\ Accessed(t) >= 0
    /\ Accessed(t) = Accessed(u)
    /\ Writes(t) \/ Writes(u)

\* the runtime detects the concurrent access and stops the program
FatalError ==
    /\ ~crashed
    /\ \E t, u \in DOMAIN goroutines : Race(t, u)
    /\ crashed' = TRUE
    /\ UNCHANGED <<astCacheRefs, maps, goroutines, parses>>
    /\ UNCHANGED <<mainvars, eqvars, auxvars>>

ConcNext ==
    \/ \E t \in Goroutines :
          \/ GetFileCacheRead(t)
          \/ GetFileCacheStore(t)
          \/ FirstLookup(t)
          \/ Parse(t)
          \/ PutComment(t)
          \/ InspectCall(t)
          \/ SecondLookup(t)
    \/ FatalError

SpecConc == ConcInit /\ [][ConcNext]_vars

(***************************************************************************)
(* Claims about concurrent lookups                                         *)
(***************************************************************************)

\* the index of the file once its build has completed
BuiltIndex(path) ==
    IF ParseFile(path).err THEN EmptyMap
    ELSE BuildIndex(EmptyMap, path, ParseFile(path))

\* C4: when goroutines look up the same path for the first time
\* concurrently, the file's index is built at most once, and every lookup
\* that returns gives the found/not-found result and the entry that the
\* completed index gives.
C4_BuildOnce ==
    /\ parses <= 1
    /\ \A t \in DOMAIN goroutines :
          goroutines[t].pc = "returned" =>
             IF goroutines[t].key \in DOMAIN BuiltIndex(goroutines[t].path)
             THEN /\ ~goroutines[t].err
                  /\ goroutines[t].entry = BuiltIndex(goroutines[t].path)[goroutines[t].key]
             ELSE goroutines[t].err

(***************************************************************************)
(* Claims about the equality engine                                        *)
(***************************************************************************)

\* nil-like, as the data model defines it: the nil interface, or a channel,
\* function, interface, map, pointer or slice that refers to nothing
NilLike(v) ==
    \/ v.kind = "Invalid"
    \/ v.kind \in {"Chan", "Func", "Interface", "Map", "Ptr", "Slice"} /\ v.ref = 0

\* C7: when at least one operand is nil-like, areEqual is true if and only
\* if both operands are nil-like, whatever their kinds and types.
C7_NilEquality ==
    (eqPc = "done" /\ (NilLike(eqA) \/ NilLike(eqB)))
        => (eqRes <=> (NilLike(eqA) /\ NilLike(eqB)))

\* C7 witness: two nil-like operands of different kinds were found equal
C7_Witness ==
    /\ eqPc = "done"
    /\ NilLike(eqA) /\ NilLike(eqB)
    /\ eqA.kind = "Chan" /\ eqB.kind = "Map"
    /\ eqRes

\* the comparable scalar kinds of the model
ScalarKinds == {"Int", "Int32", "Int64", "Float64", "String"}

IsScalar(v) == v.kind \in ScalarKinds

\* x and y hold the same value of the same type
SameScalar(x, y) == x.type = y.type /\ x.n = y.n /\ x.s = y.s /\ x.nan = y.nan

\* C8 as stated: on two values of one comparable scalar type, areEqual is
\* true when they are the same value and false when they are distinct.
C8_Original ==
    (eqPc = "done" /\ IsScalar(eqA) /\ IsScalar(eqB) /\ eqA.type = eqB.type)
        => (eqRes <=> SameScalar(eqA, eqB))

\* C8 amended: the same, for values that are not a floating-point NaN; and
\* two distinct values of one comparable scalar type are never equal (the
\* same-reference fallback included), NaN or not.
C8_ScalarEquality ==
    (eqPc = "done" /\ IsScalar(eqA) /\ IsScalar(eqB) /\ eqA.type = eqB.type)
        => /\ (~eqA.nan /\ ~eqB.nan) => (eqRes <=> SameScalar(eqA, eqB))
           /\ ~SameScalar(eqA, eqB) => ~eqRes

\* C8 witness: deep equality failed on two distinct values of one scalar
\* type, the fallback ran, and they were found unequal
C8_Witness ==
    /\ eqPc = "done"
    /\ IsScalar(eqA) /\ IsScalar(eqB) /\ eqA.type = eqB.type
    /\ ~SameScalar(eqA, eqB)
    /\ ~DeepEqual(eqA, eqB)
    /\ ~eqRes

(***************************************************************************)
(* Claims about the assertions, the log and the decorator                  *)
(***************************************************************************)

\* the assertions that ended, in order: those that returned, and the one
\* that ended its goroutine by T.FailNow or by a panic
Ended == done \o (IF pc \in {"aborted", "panicked"} THEN <<cur>> ELSE <<>>)

\* the assertions called so far, the one in progress included
Calls == done \o (IF cur.op # "none" THEN <<cur>> ELSE <<>>)

\* the assertion fails, by its operands
Fails(call) ==
    \/ call.op = "Fail"
    \/ call.op = "True" /\ ~call.expr
    \/ call.op = "Equal" /\ ~areEqual(call.a, call.b)
    \/ call.op = "NoErr" /\ call.a # NilInterface

\* the write of the i-th call to the sink, for a call that wrote
BlockOf(i) == out[Cardinality({j \in 1..i : Calls[j].wrote > 0})]

\* C1: every failing assertion that ended invoked the callback exactly once,
\* every passing one invoked it zero times and wrote nothing, and the
\* callback was invoked as often as assertions failed.
C1_CallbackCount ==
    /\ \A i \in DOMAIN Ended :
          /\ Fails(Ended[i]) => Ended[i].cb = 1
          /\ ~Fails(Ended[i]) => Ended[i].cb = 0 /\ Ended[i].wrote = 0
    /\ tcalls.Fail + tcalls.FailNow
          = Cardinality({i \in DOMAIN Ended : Fails(Ended[i])})

\* C2: the strategy set at construction (T.FailNow by New, T.Fail by
\* NewRelaxed) never changes, and the other method of T is never called.
C2_StrategyFixed ==
    /\ [](/\ New.fail = "FailNow" /\ NewRelaxed.fail = "Fail"
          /\ is.fail = New.fail => tcalls.Fail = 0
          /\ is.fail = NewRelaxed.fail => tcalls.FailNow = 0)
    /\ [][is'.fail = is.fail]_vars

\* C2 witness: a harness made by New and one made by NewRelaxed each failed
\* twice; here the relaxed one, which called T.Fail twice
C2_Witness ==
    /\ is.fail = NewRelaxed.fail
    /\ tcalls.Fail = 2 /\ tcalls.FailNow = 0
    /\ Len(done) = 2

\* C3: the callback of an assertion is never invoked before its block is
\* written: whenever the callback has fired for an assertion, that
\* assertion's write is in the sink.
C3_WriteBeforeCallback ==
    /\ \A i \in DOMAIN Calls :
          Calls[i].cb > 0 =>
             /\ Calls[i].wrote = 1
             /\ BlockOf(i) = Sprintf0(Calls[i].s)
    /\ tcalls.Fail + tcalls.FailNow <= Len(out)
    /\ pc = "fail" => cur.wrote = 1 /\ out[Len(out)] = Sprintf0(cur.s)

\* C3 witness: T.FailNow ended the goroutine of the test, and the block of
\* the assertion is in the sink
C3_Witness ==
    /\ pc = "aborted"
    /\ cur.cb = 1 /\ cur.wrote = 1
    /\ Len(out) = 1 /\ out[1] = Sprintf0(cur.s)

\* C5: NoErr of a non-nil error never panics, whatever the argument at the
\* call site is: it ends having written one block and invoked the callback
\* once.
C5_NoErrNeverPanics ==
    /\ pc # "panicked"
    /\ \A i \in DOMAIN Ended :
          (Ended[i].op = "NoErr" /\ Ended[i].a # NilInterface) =>
             /\ Ended[i].status = "failed"
             /\ Ended[i].wrote = 1
             /\ Ended[i].cb = 1

\* C6: two assertions with the same operation and the same operands, called
\* where the source resolves differently, both pass or both fail, write as
\* many blocks and invoke the callback as often.
C6_OutcomeIndependent ==
    \A i, j \in DOMAIN Ended :
        (/\ Ended[i].op = Ended[j].op /\ Ended[i].expr = Ended[j].expr
         /\ Ended[i].a = Ended[j].a /\ Ended[i].b = Ended[j].b)
        => /\ (Ended[i].status = "passed") <=> (Ended[j].status = "passed")
           /\ Ended[i].cb = Ended[j].cb
           /\ Ended[i].wrote = Ended[j].wrote

\* C9: the block NoErr writes for a non-nil error contains the text of the
\* error verbatim.
C9_ErrorTextVerbatim ==
    \A i \in DOMAIN Calls :
        (Calls[i].op = "NoErr" /\ Calls[i].wrote > 0)
        => Contains(BlockOf(i), Calls[i].a.s)

\* the text holds a '$'
HasDollar(t) == \E i \in DOMAIN t : t[i] = "$"

\* no frame of the stack outside the harness's own file names a file that
\* parses
Unresolved(stack) ==
    ~callerinfo(stack).ok \/ ParseFile(callerinfo(stack).path).err

\* C10 as stated: no block the decorator returns contains the placeholder.
C10_Original ==
    \A i \in DOMAIN Calls :
        Calls[i].status = "failed" => ~Contains(Calls[i].s, S_placeholder)

\* C10 amended: every occurrence of the placeholder in the raw message,
\* taken from left to right, is replaced by the argument text of the call
\* site, which is empty when the call site or its file is not resolved; the
\* block then contains the placeholder only if the argument text or the
\* comment holds a '$', or the raw message holds one outside the
\* occurrences replaced.
C10_PlaceholderExpanded ==
    \A i \in DOMAIN Calls :
        Calls[i].status = "failed" =>
           /\ (/\ ~HasDollar(Replace(Calls[i].raw, S_placeholder, <<>>))
               /\ ~HasDollar(Calls[i].args)
               /\ ~HasDollar(Calls[i].comment))
              => ~Contains(Calls[i].s, S_placeholder)
           /\ Unresolved(Calls[i].stack) => Calls[i].args = <<>>
           /\ ~Contains(Calls[i].raw, <<"\n">>)
              => Contains(Calls[i].s,
                          Replace(Calls[i].raw, S_placeholder, Calls[i].args))

\* C10 witness: True(false) was called where the file does not parse, and
\* the placeholder of its message was replaced by the empty string
C10_Witness ==
    /\ pc = "fail"
    /\ cur.op = "True"
    /\ Contains(cur.raw, S_placeholder)
    /\ callerinfo(cur.stack).ok /\ Unresolved(cur.stack)
    /\ cur.args = <<>>
    /\ ~Contains(cur.s, S_placeholder)

\* the calls on the harness "is" of the test file that start at the line the
\* stack resolves to and select op: each of them may be the one that ran
SitesOf(op, stack) ==
    {i \in DOMAIN TestFileCalls :
        /\ callerinfo(stack).ok
        /\ callerinfo(stack).path = TestPath
        /\ TestFileCalls[i].line = callerinfo(stack).line
        /\ TestFileCalls[i].recv = "is"
        /\ TestFileCalls[i].sel = op}

\* C11: the argument text put into the message of a failing True is the
\* source text of the argument of the call that ran, whichever call on the
\* resolved line that is; and a line with no True call gives no argument
\* text.
C11_ExactArgument ==
    \A k \in DOMAIN Calls :
        Calls[k].status = "failed" =>
           /\ Calls[k].op = "True" =>
                 \A i \in SitesOf("True", Calls[k].stack) :
                     Calls[k].args = TestFileCalls[i].args[1].text
           /\ SitesOf("True", Calls[k].stack) = {} => Calls[k].args = <<>>

\* the comments recorded for the line the stack resolves to
CommentsAt(stack) ==
    {i \in DOMAIN TestFileComments :
        /\ callerinfo(stack).ok
        /\ callerinfo(stack).path = TestPath
        /\ TestFileComments[i].line = callerinfo(stack).line}

\* the end of a block that carries the comment: " // ", the comment without
\* its marker and the space around it, the end of the colour, a newline
CommentEnd(i) ==
    <<" ", "/", "/", " ">> \o TrimSpace(From(TestFileComments[i].raw, 3))
    \o Color(is.colorful, colorNormal) \o <<"\n">>

\* C12: the block written for a failing assertion ends with " // " and the
\* trimmed comment of the call-site line when a comment is recorded for that
\* line, and holds no "//" when none is.
C12_CommentSuffix ==
    \A k \in DOMAIN Calls :
        Calls[k].wrote > 0 =>
           /\ \A i \in CommentsAt(Calls[k].stack) : HasSuffix(BlockOf(k), CommentEnd(i))
           /\ CommentsAt(Calls[k].stack) = {} => ~Contains(BlockOf(k), <<"/", "/">>)

\* the value of an operand of a failing Equal as the message gives it: nil
\* for a nil-like operand, and the type put before the formatted value
\* when both operands are non-nil-like and of different types
ValueShown(a, b, v) ==
    IF NilLike(v) THEN <<"n", "i", "l">>
    ELSE IF ~NilLike(a) /\ ~NilLike(b) /\ a.type # b.type
    THEN v.type \o <<"(">> \o formatValue(v) \o <<")">>
    ELSE formatValue(v)

\* the operand as the message gives it: the value alone when it is the
\* text of the argument, and text(value) otherwise
Rendered(text, value) ==
    IF value = text THEN value
    ELSE text \o Color(is.colorful, colorType) \o <<"(">> \o value \o <<")">>
         \o Color(is.colorful, colorNormal)

TypesDiffer(a, b) == ~NilLike(a) /\ ~NilLike(b) /\ a.type # b.type

\* Type(value)
Typed(v) == TypeName(v) \o <<"(">> \o formatValue(v) \o <<")">>

RECURSIVE BlocksOf(_)
BlocksOf(calls) ==
    IF calls = <<>> THEN <<>>
    ELSE BlocksOf(SubSeq(calls, 1, Len(calls) - 1))
         \o (IF Fails(calls[Len(calls)])
             THEN <<Sprintf0(calls[Len(calls)].s)>> ELSE <<>>)

\* C15: on a harness made by NewRelaxed no assertion ends the run, and
\* between two calls the sink holds one block for each assertion that
\* failed, in the order of the calls.
C15_RelaxedBlocks ==
    is.fail = "Fail" =>
       /\ pc \notin {"aborted", "panicked"}
       /\ pc = "idle" => out = BlocksOf(done)

\* C15, second part: a step only appends to the sink.
C15_AppendOnly ==
    [][Len(out') >= Len(out) /\ SubSeq(out', 1, Len(out)) = out]_vars

(***************************************************************************)
(* Harnesses of subtests                                                   *)
(*                                                                         *)
(* The methods New and NewRelaxed of a harness make the harness of a       *)
(* subtest.  harnesses holds the harnesses made so far, tcallsOf the calls *)
(* of Fail and FailNow on each T.  A T is named by its position in         *)
(* tcallsOf; T 1 is that of the test, the others are made by t.Run.        *)
(***************************************************************************)

\* at most MaxHarnesses harnesses are made, and at most MaxFailures
\* assertions fail
MaxHarnesses == 3
MaxFailures == 3

\* the I that New(t) and NewRelaxed(t) return: fail is the method value
\* t.FailNow or t.Fail.  given (the T passed by the caller) and failures
\* (how often log ran on the harness) are kept for the claims.
Harness(t, method, given) ==
    [t |-> t, fail |-> [recv |-> t, method |-> method], given |-> given, failures |-> 0]

NoTCalls == [Fail |-> 0, FailNow |-> 0]

\* the Ts a harness can be made with: those that exist, and the one t.Run
\* makes next
GivenT == 1..(Len(tcallsOf) + 1)

\* t.Run made the T
WithT(t) == IF t > Len(tcallsOf) THEN Append(tcallsOf, NoTCalls) ELSE tcallsOf

SubInit ==
    /\ \E method \in {"FailNow", "Fail"} : harnesses = <<Harness(1, method, 1)>>
    /\ tcallsOf = <<NoTCalls>>
    /\ MainIdle /\ EqIdle /\ ConcIdle /\ SeqIdle /\ CallIdle

\* the method bound to the T of the harness it is called on
MethodNew_parentT(h, t) ==
    /\ harnesses' = Append(harnesses, Harness(harnesses[h].t, "FailNow", t))
    /\ tcallsOf' = WithT(t)

\* src/is.go (*I).New: return New(t)
MethodNew(h, t) ==
    /\ harnesses' = Append(harnesses, Harness(t, "FailNow", t))
    /\ tcallsOf' = WithT(t)

\* src/is.go (*I).NewRelaxed: return NewRelaxed(t)
MethodNewRelaxed(h, t) ==
    /\ harnesses' = Append(harnesses, Harness(t, "Fail", t))
    /\ tcallsOf' = WithT(t)

\* is.New(t) or is.NewRelaxed(t) is called on a harness
MakeSub ==
    /\ Len(harnesses) < MaxHarnesses
    /\ \E h \in DOMAIN harnesses, t \in GivenT :
          MethodNew(h, t) \/ MethodNewRelaxed(h, t)
    /\ UNCHANGED <<mainvars, eqvars, concvars, seqvars, callvars>>

RECURSIVE TotalFailures(_)
TotalFailures(hs) ==
    IF hs = <<>> THEN 0 ELSE hs[1].failures + TotalFailures(Tail(hs))

\* src/is.go log, third statement, on the harness h: is.fail()
SubFail ==
    /\ TotalFailures(harnesses) < MaxFailures
    /\ \E h \in DOMAIN harnesses :
          /\ tcallsOf' = [tcallsOf EXCEPT
                ![harnesses[h].fail.recv][harnesses[h].fail.method] = @ + 1]
          /\ harnesses' = [harnesses EXCEPT ![h].failures = @ + 1]
    /\ UNCHANGED <<mainvars, eqvars, concvars, seqvars, callvars>>

SubNext == MakeSub \/ SubFail

SpecSub == SubInit /\ [][SubNext]_vars

\* the failures reported through the first n harnesses that were made with
\* the T t and the capability f
RECURSIVE ReportedTo(_, _, _)
ReportedTo(n, t, f) ==
    IF n = 0 THEN 0
    ELSE ReportedTo(n - 1, t, f)
         + (IF harnesses[n].given = t /\ harnesses[n].fail.method = f
            THEN harnesses[n].failures ELSE 0)

\* C16: each capability of each T was invoked exactly as often as failures
\* were reported through the harnesses made with that T and that
\* capability: a failure on the harness of a subtest reaches the T of the
\* subtest only, a failure on the parent the T of the parent only.
C16_SubHarnessIsolation ==
    \A t \in DOMAIN tcallsOf : \A f \in {"Fail", "FailNow"} :
        tcallsOf[t][f] = ReportedTo(Len(harnesses), t, f)

\* C16 witness: the harness of a subtest was made by the method New of the
\* harness of the test, and a failure was reported through each of them
C16_Witness ==
    /\ Len(harnesses) = 2
    /\ harnesses[2].given = 2
    /\ harnesses[1].failures = 1 /\ harnesses[2].failures = 1
    /\ tcallsOf[2] = [Fail |-> 0, FailNow |-> 1]
    /\ tcallsOf[1].Fail + tcallsOf[1].FailNow = 1

(***************************************************************************)
(* callerinfo on the stacks of callers                                     *)
(***************************************************************************)

\* the callers of the harness make at most MaxFrames frames
MaxFrames == 2

\* a file of the caller whose name ends as that of the harness's own file
\* does, as redis.go or analysis.go do
ThisGoPath == <<"d", "/", "t", "h", "i", "s", ".", "g", "o">>

\* the files a frame of the stack can be in
CallerPaths == {IsGoPath, TestPath, ThisGoPath, RunnerPath}

CallerFrames == {Frame(p, l) : p \in CallerPaths, l \in 1..2}

RECURSIVE FrameSeqs(_)
FrameSeqs(n) ==
    IF n = 0 THEN {<<>>}
    ELSE FrameSeqs(n - 1)
         \cup {Append(fs, f) : fs \in FrameSeqs(n - 1), f \in CallerFrames}

\* runtime.Caller(0) is callerinfo itself; the frames of its callers follow
CallerInit ==
    /\ \E fs \in FrameSeqs(MaxFrames) : callStack = <<Frame(IsGoPath, 427)>> \o fs
    /\ callerPc = "call"
    /\ callerRes = [path |-> <<>>, line |-> 0, ok |-> FALSE]
    /\ MainIdle /\ EqIdle /\ ConcIdle /\ SeqIdle /\ SubIdle

\* src/is.go callerinfo is called and returns
CallerInfo ==
    /\ callerPc = "call"
    /\ callerRes' = callerinfo(callStack)
    /\ callerPc' = "done"
    /\ UNCHANGED <<callStack, mainvars, eqvars, concvars, seqvars, subvars>>

CallerNext == CallerInfo

SpecCaller == CallerInit /\ [][CallerNext]_vars

\* the frames of the stack that are not in the harness's own file
Foreign == {i \in DOMAIN callStack : callStack[i].path # IsGoPath}

\* C17: callerinfo returns the innermost frame that is not in the
\* harness's own file, whatever the name of its file, and ok = false only
\* when the stack has no such frame.
C17_InnermostForeignFrame ==
    callerPc = "done" =>
        IF Foreign = {} THEN ~callerRes.ok
        ELSE \E i \in Foreign :
                /\ \A j \in Foreign : i <= j
                /\ callerRes = [path |-> callStack[i].path,
                                line |-> callStack[i].line, ok |-> TRUE]

(***************************************************************************)
(* Lookups one after the other                                             *)
(*                                                                         *)
(* One goroutine calls getNodeFromCache again and again, each call         *)
(* running the statements of the concurrent model to its return.  lookups  *)
(* holds the calls that returned before the current one.                   *)
(***************************************************************************)

\* at most MaxLookups lookups are made
MaxLookups == 3

\* the lines looked up: one with a call and a comment, one with a call and
\* no comment
SeqLines == {1, 2}

SeqInit == MainIdle /\ EqIdle /\ ConcIdle /\ AuxIdle

\* getNodeFromCache is called, the call before it having returned
StartLookup ==
    /\ ~crashed
    /\ Len(lookups) + Len(goroutines) < MaxLookups
    /\ \A t \in DOMAIN goroutines : goroutines[t].pc = "returned"
    /\ lookups' = lookups \o goroutines
    /\ \E kind \in {commentCacheEntry, isCallCacheEntry},
          path \in {TestPath, BrokenPath}, line \in SeqLines :
          goroutines' = <<Goroutine(kind, path, line)>>
    /\ UNCHANGED <<astCacheRefs, maps, parses, crashed>>
    /\ UNCHANGED <<mainvars, eqvars, callvars, subvars>>

SeqNext ==
    \/ StartLookup
    \/ GetFileCacheRead(1)
    \/ GetFileCacheStore(1)
    \/ FirstLookup(1)
    \/ Parse(1)
    \/ PutComment(1)
    \/ InspectCall(1)
    \/ SecondLookup(1)

SpecSeq == SeqInit /\ [][SeqNext]_vars

\* the lookups made so far, in order, the current one last
AllLookups == lookups \o goroutines

\* the i-th lookup is the first one for its path
FirstFor(i) == \A k \in 1..(i - 1) : AllLookups[k].path # AllLookups[i].path

\* C18: when the first lookup for a path called the parser and the parser
\* failed, no later lookup for that path calls the parser, and each of them
\* returns not-found.
C18_ParseFailurePermanent ==
    \A i \in DOMAIN AllLookups : \A j \in DOMAIN AllLookups :
        (/\ i < j
         /\ FirstFor(i)
         /\ AllLookups[i].parsed /\ ParseFile(AllLookups[i].path).err
         /\ AllLookups[j].path = AllLookups[i].path)
        => /\ ~AllLookups[j].parsed
           /\ AllLookups[j].pc = "returned" => AllLookups[j].err

\* C18 witness: three lookups for the file that does not parse returned,
\* the first after a parse attempt, the others for another kind and another
\* line
C18_Witness ==
    /\ Len(AllLookups) = 3
    /\ \A i \in 1..3 : AllLookups[i].path = BrokenPath /\ AllLookups[i].pc = "returned"
    /\ AllLookups[1].parsed /\ AllLookups[1].err
    /\ AllLookups[2].key # AllLookups[1].key
    /\ AllLookups[3].key \notin {AllLookups[1].key, AllLookups[2].key}
    /\ AllLookups[2].err /\ AllLookups[3].err

\* C19: once the first lookup for a path has returned, no later lookup for
\* the path calls the parser, and two lookups of the same kind and line of
\* a path that returned gave the same found/not-found result and the same
\* entry.
C19_LookupsRepeatable ==
    \A i \in DOMAIN AllLookups : \A j \in DOMAIN AllLookups :
        (i < j /\ AllLookups[j].path = AllLookups[i].path)
        => /\ ~AllLookups[j].parsed
           /\ (/\ AllLookups[j].key = AllLookups[i].key
               /\ AllLookups[j].pc = "returned")
              => /\ AllLookups[j].err = AllLookups[i].err
                 /\ AllLookups[j].entry = AllLookups[i].entry

\* C19 witness: the first lookup of the file parsed it and found its entry,
\* and a later lookup of the same kind and line found the same entry
\* without a parse
C19_Witness ==
    /\ Len(AllLookups) >= 2
    /\ AllLookups[1].path = TestPath /\ AllLookups[1].parsed
    /\ ~AllLookups[1].err /\ AllLookups[1].entry # NoNode
    /\ \E j \in 2..Len(AllLookups) :
          /\ AllLookups[j].pc = "returned"
          /\ AllLookups[j].path = TestPath
          /\ AllLookups[j].key = AllLookups[1].key
          /\ ~AllLookups[j].parsed
          /\ AllLookups[j].entry = AllLookups[1].entry

\* the index that the cache refs, with the maps ms, holds for the path:
\* the empty map stands for no index
IndexIn(refs, ms, path) == IF path \in DOMAIN refs THEN ms[refs[path]] ELSE EmptyMap

\* a lookup that found no index for the path has returned: the index of
\* the path has been built
Built(path) ==
    \E i \in DOMAIN AllLookups :
        /\ AllLookups[i].path = path
        /\ AllLookups[i].newCacheEntry
        /\ AllLookups[i].pc = "returned"

\* a lookup for the path takes the step
StepsFor(path) ==
    \E t \in DOMAIN goroutines :
        /\ goroutines[t].path = path
        /\ t \in DOMAIN goroutines' /\ goroutines'[t] # goroutines[t]

\* C20: a step changes the index of a path only if it is a step of a
\* lookup for that path, and no step changes the index of a path once it
\* has been built.
C20_AppendOnlyIsolated ==
    [][\A path \in {TestPath, BrokenPath} :
          (IndexIn(astCacheRefs', maps', path) # IndexIn(astCacheRefs, maps, path))
          => (StepsFor(path) /\ ~Built(path))]_vars

====
